---- MODULE Spec2Model ----
(***************************************************************************)
(* Model of scal.py: the Shamsi (Solar Hijri) calendar tool.               *)
(*                                                                         *)
(* The functions of scal.py are pure; each is an operator computed the way *)
(* the code computes it.  A Python exception is a result with a non-empty  *)
(* err field.  Four specifications apply the operators to bounded inputs:  *)
(*   Spec        the two date conversions and their round trips            *)
(*   SpecMeta    leap-year oracle, month name, month length                *)
(*   SpecRender  print_shamsi_calendar                                     *)
(*   SpecCli     the __main__ block                                        *)
(***************************************************************************)
EXTENDS Integers, Sequences, FiniteSets

VARIABLES
    pc,     \* "call": fn is about to run; "return": ret holds its result;
            \* "back": the inverse conversion was applied to ret
    fn,     \* the function (or "__main__") being invoked
    args,   \* its arguments
    ret,    \* its result: [err |-> exception name or "", val |-> value]
    back    \* result of the inverse conversion applied to ret.val

vars == <<pc, fn, args, ret, back>>

(***************************************************************************)
(* Bounds of the model.                                                    *)
(***************************************************************************)
MinShamsiYear == 1299
MaxShamsiYear == 1480
ClaimYearLo == 1300
ClaimYearHi == 1450
LeapYearSpan == 60
MaxMonthArg == 15
MinRenderYear == 1400
MaxRenderYear == 1406

(***************************************************************************)
(* Results of a call.                                                      *)
(***************************************************************************)
Return(v) == [err |-> "", val |-> v]
Raise(e) == [err |-> e, val |-> <<>>]
Pending == [err |-> "pending", val |-> <<>>]

Min(a, b) == IF a < b THEN a ELSE b
Max(a, b) == IF a > b THEN a ELSE b

(***************************************************************************)
(* Python list semantics: lists are indexed from 0; lst[i] with a negative *)
(* i counts from the end; an index outside -len..len-1 raises IndexError.  *)
(* A list is modelled as a function on 0..len-1.                           *)
(***************************************************************************)
PyLen(lst) == Cardinality(DOMAIN lst)

PyIndex(lst, i) ==
    IF i >= 0
    THEN IF i < PyLen(lst) THEN Return(lst[i]) ELSE Raise("IndexError")
    ELSE IF -i <= PyLen(lst) THEN Return(lst[PyLen(lst) + i]) ELSE Raise("IndexError")

RECURSIVE SumRange(_, _, _)
SumRange(lst, lo, hi) ==
    IF lo > hi THEN 0 ELSE lst[lo] + SumRange(lst, lo + 1, hi)

\* sum(lst[1:stop]) with Python's slice clamping
SumSlice1(lst, stop) ==
    LET s == IF stop < 0 THEN Max(PyLen(lst) + stop, 0) ELSE Min(stop, PyLen(lst))
    IN SumRange(lst, 1, s - 1)

(***************************************************************************)
(* Leap-year rules.                                                        *)
(***************************************************************************)
is_shamsi_leap_year_no30(shamsi_year) ==
    LET rem == (shamsi_year + 2346) % 33
    IN rem = 1 \/ rem = 5 \/ rem = 9 \/ rem = 13 \/ rem = 17 \/ rem = 21 \/ rem = 26

is_shamsi_leap_year(shamsi_year) ==
    LET rem == (shamsi_year + 2346) % 33
    IN rem = 1 \/ rem = 5 \/ rem = 9 \/ rem = 13 \/ rem = 17 \/ rem = 21 \/ rem = 26 \/ rem = 30

\* the Gregorian leap test written inline in both conversions
IsGregorianLeap(gy) == (gy % 4 = 0 /\ gy % 100 # 0) \/ (gy % 400 = 0)

GregorianYearLength(gy) == 365 + (IF IsGregorianLeap(gy) THEN 1 ELSE 0)

g_days_in_month ==
    [i \in 0..12 |-> <<0, 31, 28, 31, 30, 31, 30, 31, 31, 30, 31, 30, 31>>[i + 1]]

j_days_in_month ==
    [i \in 0..12 |-> <<0, 31, 31, 31, 31, 31, 31, 30, 30, 30, 30, 30, 29>>[i + 1]]

\* the day-of-year added to the Shamsi day count
GDayOfYearNewYearSwapped(jy) == IF is_shamsi_leap_year(jy - 1) THEN 79 ELSE 80

GDayOfYearNewYear(jy) == IF is_shamsi_leap_year(jy - 1) THEN 80 ELSE 79

(***************************************************************************)
(* shamsi_to_gregorian                                                     *)
(***************************************************************************)
DaysInCurrentGMonth(gy, gm) ==
    IF gm = 2 /\ IsGregorianLeap(gy) THEN 29 ELSE g_days_in_month[gm]

\* the while loop of shamsi_to_gregorian, entered with gm = 1, gd = 0
RECURSIVE WalkGregorianMonths(_, _, _)
WalkGregorianMonths(gy, gm, total_days_gregorian) ==
    IF total_days_gregorian <= 0 THEN Return(<<gy, gm, 0>>)
    ELSE IF gm > 12 THEN Raise("IndexError")
    ELSE IF total_days_gregorian <= DaysInCurrentGMonth(gy, gm)
         THEN Return(<<gy, gm, total_days_gregorian>>)
         ELSE WalkGregorianMonths(gy, gm + 1,
                  total_days_gregorian - DaysInCurrentGMonth(gy, gm))

shamsi_to_gregorian(shamsi_year, shamsi_month, shamsi_day) ==
    LET jdim == [i \in 0..12 |->
                    IF i = 12 /\ is_shamsi_leap_year(shamsi_year)
                    THEN 30 ELSE j_days_in_month[i]]
        days_passed_shamsi == SumSlice1(jdim, shamsi_month) + shamsi_day
        gy == shamsi_year + 621
        total == GDayOfYearNewYear(shamsi_year) + days_passed_shamsi
    IN IF total > GregorianYearLength(gy)
       THEN WalkGregorianMonths(gy + 1, 1, total - GregorianYearLength(gy))
       ELSE WalkGregorianMonths(gy, 1, total)

(***************************************************************************)
(* gregorian_to_shamsi                                                     *)
(***************************************************************************)
DaysInCurrentJMonth(jy, jm) ==
    IF jm = 12 /\ is_shamsi_leap_year(jy) THEN 30 ELSE j_days_in_month[jm]

\* the while loop of gregorian_to_shamsi, entered with jm = 1, jd = 0
RECURSIVE WalkShamsiMonths(_, _, _)
WalkShamsiMonths(jy, jm, days_passed_shamsi) ==
    IF days_passed_shamsi <= 0 THEN Return(<<jy, jm, 0>>)
    ELSE IF jm > 12 THEN Raise("IndexError")
    ELSE IF days_passed_shamsi <= DaysInCurrentJMonth(jy, jm)
         THEN Return(<<jy, jm, days_passed_shamsi>>)
         ELSE WalkShamsiMonths(jy, jm + 1,
                  days_passed_shamsi - DaysInCurrentJMonth(jy, jm))

\* days since the Shamsi new year, wrapped into the previous year's count
DaysPassedShamsiNoZeroWrap(jy, days_passed_gregorian) ==
    LET d == days_passed_gregorian - GDayOfYearNewYear(jy)
    IN IF d < 0
       THEN d + (IF is_shamsi_leap_year(jy) THEN 366 ELSE 365)
       ELSE d

DaysPassedShamsi(jy, days_passed_gregorian) ==
    LET d == days_passed_gregorian - GDayOfYearNewYear(jy)
    IN IF d < 1
       THEN d + (IF is_shamsi_leap_year(jy) THEN 366 ELSE 365)
       ELSE d

gregorian_to_shamsi(gregorian_year, gregorian_month, gregorian_day) ==
    LET days_passed_gregorian ==
            SumSlice1(g_days_in_month, gregorian_month) + gregorian_day
            + (IF gregorian_month > 2 /\ IsGregorianLeap(gregorian_year) THEN 1 ELSE 0)
        jy == (gregorian_year - 621) - (IF days_passed_gregorian < 80 THEN 1 ELSE 0)
    IN WalkShamsiMonths(jy, 1, DaysPassedShamsi(jy, days_passed_gregorian))

(***************************************************************************)
(* Month metadata                                                          *)
(***************************************************************************)
shamsi_month_names ==
    [i \in 0..12 |-> <<"", "Farvardin", "Ordibehesht", "Khordad", "Tir", "Mordad",
                       "Shahrivar", "Mehr", "Aban", "Azar", "Dey", "Bahman",
                       "Esfand">>[i + 1]]

get_shamsi_month_name(month_number) == PyIndex(shamsi_month_names, month_number)

get_days_in_shamsi_month(shamsi_year, shamsi_month) ==
    IF 1 <= shamsi_month /\ shamsi_month <= 6 THEN Return(31)
    ELSE IF 7 <= shamsi_month /\ shamsi_month <= 11 THEN Return(30)
    ELSE IF shamsi_month = 12
         THEN Return(IF is_shamsi_leap_year(shamsi_year) THEN 30 ELSE 29)
         ELSE Raise("ValueError")

(***************************************************************************)
(* datetime.date of the Python standard library: construction raises       *)
(* ValueError outside years 1..9999, months 1..12 and the days of the      *)
(* month; weekday() is 0 for Monday .. 6 for Sunday, computed from the     *)
(* proleptic Gregorian ordinal (1 January of year 1 is day 1, a Monday).   *)
(***************************************************************************)
date_toordinal(y, m, d) ==
    LET p == y - 1
        days_before_year == p * 365 + (p \div 4) - (p \div 100) + (p \div 400)
        days_before_month ==
            SumSlice1(g_days_in_month, m) + (IF m > 2 /\ IsGregorianLeap(y) THEN 1 ELSE 0)
    IN days_before_year + days_before_month + d

datetime_date(y, m, d) ==
    IF /\ 1 <= y /\ y <= 9999
       /\ 1 <= m /\ m <= 12
       /\ 1 <= d /\ d <= DaysInCurrentGMonth(y, m)
    THEN Return(<<y, m, d>>)
    ELSE Raise("ValueError")

date_weekday(dt) == (date_toordinal(dt[1], dt[2], dt[3]) + 6) % 7

(***************************************************************************)
(* print_shamsi_calendar.  The printed text is a sequence of tokens: a     *)
(* title, the weekday header, blank cells of three spaces, day cells       *)
(* (highlighted or not) and line breaks.  current_shamsi_day is the set    *)
(* of days to highlight: {} for None, {d} for the day d.                   *)
(***************************************************************************)
Tok(k, t, n, h) == [kind |-> k, text |-> t, num |-> n, hl |-> h]
NL == Tok("nl", "", 0, FALSE)
BlankCell == Tok("blank", "", 0, FALSE)
DayCell(n, h) == Tok("day", "", n, h)
TitleLine(month_name, year) == Tok("title", month_name, year, FALSE)
HeaderLine == Tok("header", " Sa Su Mo Tu We Th Fr", 0, FALSE)

Printed(e, out) == [err |-> e, val |-> out]

leading_spaces(weekday) == (weekday + 2) % 7

EndOfLineIgnoringLead(leading, current_day_in_loop) ==
    current_day_in_loop % 7 = 0

\* the test that ends a row after a day cell
EndOfLine(leading, current_day_in_loop) ==
    (leading + current_day_in_loop) % 7 = 0

RECURSIVE Repeat(_, _)
Repeat(tok, n) == IF n <= 0 THEN <<>> ELSE <<tok>> \o Repeat(tok, n - 1)

\* the while loop over the days of the month
RECURSIVE DayLoop(_, _, _, _)
DayLoop(current_day_in_loop, num_days_in_month, leading, current_shamsi_day) ==
    IF current_day_in_loop > num_days_in_month THEN <<>>
    ELSE <<DayCell(current_day_in_loop, current_day_in_loop \in current_shamsi_day)>>
         \o (IF EndOfLine(leading, current_day_in_loop) THEN <<NL>> ELSE <<>>)
         \o DayLoop(current_day_in_loop + 1, num_days_in_month, leading,
                    current_shamsi_day)

\* the title line (after an empty line) and the weekday header
CalendarHead(month_name, year) ==
    <<NL, TitleLine(month_name, year), NL, HeaderLine, NL>>

print_shamsi_calendar(year, month, current_shamsi_day) ==
    LET month_name == get_shamsi_month_name(month)
        head == CalendarHead(month_name.val, year)
        g == shamsi_to_gregorian(year, month, 1)
        first_day_of_month == datetime_date(g.val[1], g.val[2], g.val[3])
        leading == leading_spaces(date_weekday(first_day_of_month.val))
        lead == head \o Repeat(BlankCell, leading)
        num_days_in_month == get_days_in_shamsi_month(year, month)
    IN IF month_name.err # "" THEN Printed(month_name.err, <<>>)
       ELSE IF g.err # "" THEN Printed(g.err, head)
       ELSE IF first_day_of_month.err # "" THEN Printed(first_day_of_month.err, head)
       ELSE IF num_days_in_month.err # "" THEN Printed(num_days_in_month.err, lead)
       ELSE Printed("",
                lead
                \o DayLoop(1, num_days_in_month.val, leading, current_shamsi_day)
                \o (IF ~EndOfLine(leading, num_days_in_month.val) THEN <<NL>> ELSE <<>>)
                \o <<NL>>)

(***************************************************************************)
(* The __main__ block.  The command line is a record argv:                 *)
(*   gregorian, shamsi : [kind, val], kind "none" (option absent), "empty" *)
(*       (the empty string), "malformed" (a string that does not split     *)
(*       into three integers on '-') or "date" (val = the three integers)  *)
(*   month, year : [kind, val], kind "none", "int" (val = the integer) or  *)
(*       "nonint" (a string int() rejects)                                 *)
(* The result is the process exit code together with what was printed:     *)
(* status "converted" with the date, "error" (the Error: line of a         *)
(* conversion branch), "calendar" (every requested month printed),         *)
(* "usage" (the usage lines), "argparse" (argparse's own error) or         *)
(* "traceback" (an exception no handler catches).                          *)
(***************************************************************************)
Exit(code, status, date, out) ==
    [err |-> "SystemExit",
     val |-> [exit |-> code, status |-> status, date |-> date, out |-> out]]

\* Python truthiness of args.gregorian / args.shamsi
Truthy(opt) == opt.kind \notin {"none", "empty"}

\* parse_args() rejects (exit code 2) a positional that is not an integer
\* and the two options of the mutually exclusive group given together
ArgparseRejects(argv) ==
    \/ argv.month.kind = "nonint"
    \/ argv.year.kind = "nonint"
    \/ (argv.gregorian.kind # "none" /\ argv.shamsi.kind # "none")

\* the "Basic validation" of both conversion branches
BasicValidation(month, day) ==
    1 <= month /\ month <= 12 /\ 1 <= day /\ day <= 31

\* the body of "if args.gregorian:"
convert_gregorian(opt) ==
    IF opt.kind = "malformed" THEN Exit(0, "error", <<>>, <<>>)
    ELSE IF ~BasicValidation(opt.val[2], opt.val[3]) THEN Exit(0, "error", <<>>, <<>>)
    ELSE LET r == gregorian_to_shamsi(opt.val[1], opt.val[2], opt.val[3])
         IN IF r.err = "" THEN Exit(0, "converted", r.val, <<>>)
            ELSE IF r.err = "ValueError" THEN Exit(0, "error", <<>>, <<>>)
            ELSE Exit(1, "traceback", <<>>, <<>>)

\* the body of "if args.shamsi:"
convert_shamsi(opt) ==
    IF opt.kind = "malformed" THEN Exit(0, "error", <<>>, <<>>)
    ELSE IF ~BasicValidation(opt.val[2], opt.val[3]) THEN Exit(0, "error", <<>>, <<>>)
    ELSE LET r == shamsi_to_gregorian(opt.val[1], opt.val[2], opt.val[3])
         IN IF r.err = "" THEN Exit(0, "converted", r.val, <<>>)
            ELSE IF r.err = "ValueError" THEN Exit(0, "error", <<>>, <<>>)
            ELSE Exit(1, "traceback", <<>>, <<>>)

\* how a calendar branch with an "except ValueError" handler ends
AfterPrinting(r) ==
    IF r.err = "" THEN Exit(0, "calendar", <<>>, r.val)
    ELSE IF r.err = "ValueError" THEN Exit(1, "usage", <<>>, r.val)
    ELSE Exit(1, "traceback", <<>>, r.val)

\* the branch "month and year given"; cur is today's Shamsi date
show_month(month, year, cur) ==
    IF ~(1 <= month /\ month <= 12) THEN Exit(1, "usage", <<>>, <<>>)
    ELSE AfterPrinting(
             print_shamsi_calendar(year, month,
                 IF year = cur[1] /\ month = cur[2] THEN {cur[3]} ELSE {}))

\* "for m in range(1, 13)" of the branch "only a year given"
RECURSIVE YearLoop(_, _, _)
YearLoop(m, target_year, cur) ==
    IF m > 12 THEN Printed("", <<>>)
    ELSE LET r == print_shamsi_calendar(target_year, m,
                      IF target_year = cur[1] /\ m = cur[2] THEN {cur[3]} ELSE {})
             rest == YearLoop(m + 1, target_year, cur)
         IN IF r.err # "" THEN r
            ELSE Printed(rest.err, r.val \o rest.val)

show_year(target_year, cur) == AfterPrinting(YearLoop(1, target_year, cur))

\* the branch without arguments: no handler around the call
show_current(cur) ==
    LET r == print_shamsi_calendar(cur[1], cur[2], {cur[3]})
    IN IF r.err = "" THEN Exit(0, "calendar", <<>>, r.val)
       ELSE Exit(1, "traceback", <<>>, r.val)

(***************************************************************************)
(* Valid dates of the two calendars.                                       *)
(***************************************************************************)
ValidShamsiDates(lo, hi) ==
    {<<y, m, d>> \in (lo..hi) \X (1..12) \X (1..31) :
        d <= get_days_in_shamsi_month(y, m).val}

ValidGregorianDates(lo, hi) ==
    {<<y, m, d>> \in (lo..hi) \X (1..12) \X (1..31) :
        d <= DaysInCurrentGMonth(y, m)}

(***************************************************************************)
(* Spec: the two conversions, applied to a valid date and then to each     *)
(* other's result.                                                         *)
(***************************************************************************)
Init ==
    /\ pc = "call"
    /\ \/ /\ fn = "shamsi_to_gregorian"
          /\ args \in ValidShamsiDates(MinShamsiYear, MaxShamsiYear)
       \/ /\ fn = "gregorian_to_shamsi"
          /\ args \in ValidGregorianDates(MinShamsiYear + 621, MaxShamsiYear + 621)
    /\ ret = Pending
    /\ back = Pending

ShamsiToGregorian ==
    \/ /\ pc = "call" /\ fn = "shamsi_to_gregorian"
       /\ ret' = shamsi_to_gregorian(args[1], args[2], args[3])
       /\ pc' = "return"
       /\ UNCHANGED <<fn, args, back>>
    \/ /\ pc = "return" /\ fn = "gregorian_to_shamsi" /\ ret.err = ""
       /\ back' = shamsi_to_gregorian(ret.val[1], ret.val[2], ret.val[3])
       /\ pc' = "back"
       /\ UNCHANGED <<fn, args, ret>>

GregorianToShamsi ==
    \/ /\ pc = "call" /\ fn = "gregorian_to_shamsi"
       /\ ret' = gregorian_to_shamsi(args[1], args[2], args[3])
       /\ pc' = "return"
       /\ UNCHANGED <<fn, args, back>>
    \/ /\ pc = "return" /\ fn = "shamsi_to_gregorian" /\ ret.err = ""
       /\ back' = gregorian_to_shamsi(ret.val[1], ret.val[2], ret.val[3])
       /\ pc' = "back"
       /\ UNCHANGED <<fn, args, ret>>

Next == ShamsiToGregorian \/ GregorianToShamsi

Spec == Init /\ [][Next]_vars

(***************************************************************************)
(* SpecMeta: the leap-year oracle and the month metadata.                  *)
(***************************************************************************)
InitMeta ==
    /\ pc = "call"
    /\ \/ /\ fn = "is_shamsi_leap_year"
          \* years on both sides of -2346, where (year + 2346) changes sign
          /\ args \in {<<y>> : y \in ((-2346 - LeapYearSpan)..(-2346 + LeapYearSpan))
                                      \cup (MinShamsiYear..MaxShamsiYear)}
       \/ /\ fn = "get_shamsi_month_name"
          /\ args \in {<<m>> : m \in (-MaxMonthArg)..MaxMonthArg}
       \/ /\ fn = "get_days_in_shamsi_month"
          /\ args \in (MinRenderYear..MaxRenderYear) \X ((-MaxMonthArg)..MaxMonthArg)
    /\ ret = Pending
    /\ back = Pending

IsShamsiLeapYear ==
    /\ pc = "call" /\ fn = "is_shamsi_leap_year"
    /\ ret' = Return(is_shamsi_leap_year(args[1]))
    /\ pc' = "return"
    /\ UNCHANGED <<fn, args, back>>

GetShamsiMonthName ==
    /\ pc = "call" /\ fn = "get_shamsi_month_name"
    /\ ret' = get_shamsi_month_name(args[1])
    /\ pc' = "return"
    /\ UNCHANGED <<fn, args, back>>

GetDaysInShamsiMonth ==
    /\ pc = "call" /\ fn = "get_days_in_shamsi_month"
    /\ ret' = get_days_in_shamsi_month(args[1], args[2])
    /\ pc' = "return"
    /\ UNCHANGED <<fn, args, back>>

NextMeta == IsShamsiLeapYear \/ GetShamsiMonthName \/ GetDaysInShamsiMonth

SpecMeta == InitMeta /\ [][NextMeta]_vars

(***************************************************************************)
(* SpecRender: print_shamsi_calendar on a year, a month and an optional    *)
(* day to highlight.                                                       *)
(***************************************************************************)
InitRender ==
    /\ pc = "call"
    /\ fn = "print_shamsi_calendar"
    /\ args \in (MinRenderYear..MaxRenderYear) \X (0..13)
                \X ({{}} \cup {{d} : d \in 1..32})
    /\ ret = Pending
    /\ back = Pending

PrintShamsiCalendar ==
    /\ pc = "call" /\ fn = "print_shamsi_calendar"
    /\ ret' = print_shamsi_calendar(args[1], args[2], args[3])
    /\ pc' = "return"
    /\ UNCHANGED <<fn, args, back>>

NextRender == PrintShamsiCalendar

SpecRender == InitRender /\ [][NextRender]_vars

(***************************************************************************)
(* SpecCli: one run of the program.  args = [today, argv]; today is the    *)
(* host's date.  argparse fills the positionals in order, so a year is     *)
(* present only together with a month; the final else branch of __main__   *)
(* (no month but a year) is therefore never entered and has no action.     *)
(***************************************************************************)
NoOpt == [kind |-> "none", val |-> <<>>]
NoArg == [kind |-> "none", val |-> 0]

OptionValues(dates) ==
    {NoOpt, [kind |-> "empty", val |-> <<>>], [kind |-> "malformed", val |-> <<>>]}
    \cup {[kind |-> "date", val |-> dt] : dt \in dates}

PositionalValues ==
    {NoArg, [kind |-> "nonint", val |-> 0]}
    \cup {[kind |-> "int", val |-> n] : n \in {-621, 0, 1, 12, 13, 1403, 9379}}

GregorianOptionDates == {2023, 2024} \X {0, 2, 12, 13} \X {0, 29, 30, 31, 32}
ShamsiOptionDates == {1402, 1403} \X {0, 1, 12, 13} \X {0, 29, 30, 31, 32}
Todays == {<<2024, 3, 20>>, <<2025, 1, 15>>}

InitCli ==
    /\ pc = "call"
    /\ fn = "__main__"
    /\ args \in {a \in [today : Todays,
                        argv : [gregorian : OptionValues(GregorianOptionDates),
                                shamsi : OptionValues(ShamsiOptionDates),
                                month : PositionalValues,
                                year : PositionalValues]] :
                    a.argv.year.kind # "none" => a.argv.month.kind # "none"}
    /\ ret = Pending
    /\ back = Pending

\* today's Shamsi date, computed before the arguments are parsed
CurrentShamsi == gregorian_to_shamsi(args.today[1], args.today[2], args.today[3]).val

Finish(r) ==
    /\ ret' = r
    /\ pc' = "return"
    /\ UNCHANGED <<fn, args, back>>

ArgparseError ==
    /\ pc = "call" /\ fn = "__main__"
    /\ ArgparseRejects(args.argv)
    /\ Finish(Exit(2, "argparse", <<>>, <<>>))

ConvertGregorian ==
    /\ pc = "call" /\ fn = "__main__"
    /\ ~ArgparseRejects(args.argv)
    /\ Truthy(args.argv.gregorian)
    /\ Finish(convert_gregorian(args.argv.gregorian))

ConvertShamsi ==
    /\ pc = "call" /\ fn = "__main__"
    /\ ~ArgparseRejects(args.argv)
    /\ ~Truthy(args.argv.gregorian)
    /\ Truthy(args.argv.shamsi)
    /\ Finish(convert_shamsi(args.argv.shamsi))

ShowMonth ==
    /\ pc = "call" /\ fn = "__main__"
    /\ ~ArgparseRejects(args.argv)
    /\ ~Truthy(args.argv.gregorian) /\ ~Truthy(args.argv.shamsi)
    /\ args.argv.month.kind = "int" /\ args.argv.year.kind = "int"
    /\ Finish(show_month(args.argv.month.val, args.argv.year.val, CurrentShamsi))

ShowYear ==
    /\ pc = "call" /\ fn = "__main__"
    /\ ~ArgparseRejects(args.argv)
    /\ ~Truthy(args.argv.gregorian) /\ ~Truthy(args.argv.shamsi)
    /\ args.argv.month.kind = "int" /\ args.argv.year.kind = "none"
    /\ Finish(show_year(args.argv.month.val, CurrentShamsi))

ShowCurrent ==
    /\ pc = "call" /\ fn = "__main__"
    /\ ~ArgparseRejects(args.argv)
    /\ ~Truthy(args.argv.gregorian) /\ ~Truthy(args.argv.shamsi)
    /\ args.argv.month.kind = "none" /\ args.argv.year.kind = "none"
    /\ Finish(show_current(CurrentShamsi))

NextCli ==
    \/ ArgparseError
    \/ ConvertGregorian
    \/ ConvertShamsi
    \/ ShowMonth
    \/ ShowYear
    \/ ShowCurrent

SpecCli == InitCli /\ [][NextCli]_vars

(***************************************************************************)
(* Calendar arithmetic used to state the properties.                       *)
(***************************************************************************)
NextShamsiDay(dt) ==
    IF dt[3] < get_days_in_shamsi_month(dt[1], dt[2]).val THEN <<dt[1], dt[2], dt[3] + 1>>
    ELSE IF dt[2] < 12 THEN <<dt[1], dt[2] + 1, 1>>
    ELSE <<dt[1] + 1, 1, 1>>

NextGregorianDay(dt) ==
    IF dt[3] < DaysInCurrentGMonth(dt[1], dt[2]) THEN <<dt[1], dt[2], dt[3] + 1>>
    ELSE IF dt[2] < 12 THEN <<dt[1], dt[2] + 1, 1>>
    ELSE <<dt[1] + 1, 1, 1>>

LeapResidues == {1, 5, 9, 13, 17, 21, 26, 30}

\* the remainder in 0..32 of v divided by 33, defined without %
NonNegRem33(v) ==
    CHOOSE r \in 0..32 : \E q \in -200..200 : v = 33 * q + r

MonthNames ==
    {"Farvardin", "Ordibehesht", "Khordad", "Tir", "Mordad", "Shahrivar",
     "Mehr", "Aban", "Azar", "Dey", "Bahman", "Esfand"}

(***************************************************************************)
(* Properties of the conversions (checked under Spec).                     *)
(***************************************************************************)

\* C1: for every valid Shamsi date with year in 1300..1450,
\* gregorian_to_shamsi(shamsi_to_gregorian(y, m, d)) = (y, m, d).
RoundTripFromShamsi ==
    (pc = "back" /\ fn = "shamsi_to_gregorian"
        /\ args[1] \in ClaimYearLo..ClaimYearHi)
    => (back.err = "" /\ back.val = args)

\* C2: for every valid Gregorian date with year in 1921..2071,
\* shamsi_to_gregorian(gregorian_to_shamsi(gy, gm, gd)) = (gy, gm, gd).
RoundTripFromGregorian ==
    (pc = "back" /\ fn = "gregorian_to_shamsi"
        /\ args[1] \in (ClaimYearLo + 621)..(ClaimYearHi + 621))
    => (back.err = "" /\ back.val = args)

\* C3: the anchor dates: shamsi_to_gregorian(1403,1,1) = (2024,3,20),
\* gregorian_to_shamsi(2024,3,20) = (1403,1,1) and
\* gregorian_to_shamsi(1979,2,11) = (1357,11,22).
AnchorDates ==
    /\ (pc # "call" /\ fn = "shamsi_to_gregorian" /\ args = <<1403, 1, 1>>)
       => (ret.err = "" /\ ret.val = <<2024, 3, 20>>)
    /\ (pc # "call" /\ fn = "gregorian_to_shamsi" /\ args = <<2024, 3, 20>>)
       => (ret.err = "" /\ ret.val = <<1403, 1, 1>>)
    /\ (pc # "call" /\ fn = "gregorian_to_shamsi" /\ args = <<1979, 2, 11>>)
       => (ret.err = "" /\ ret.val = <<1357, 11, 22>>)
    /\ (pc = "back" /\ fn = "shamsi_to_gregorian" /\ args = <<1403, 1, 1>>)
       => (back.err = "" /\ back.val = <<1403, 1, 1>>)

AnchorDatesWitness ==
    /\ pc = "back" /\ fn = "shamsi_to_gregorian" /\ args = <<1403, 1, 1>>
    /\ ret.val = <<2024, 3, 20>> /\ back.val = <<1403, 1, 1>>

\* C9: on a valid date each conversion returns, without raising, a date
\* whose month is in 1..12 and whose day is in 1..(length of that month).
ConversionsTotalAndValid ==
    /\ (pc # "call" /\ fn = "gregorian_to_shamsi")
       => /\ ret.err = ""
          /\ ret.val[2] \in 1..12
          /\ 1 <= ret.val[3]
          /\ ret.val[3] <= get_days_in_shamsi_month(ret.val[1], ret.val[2]).val
    /\ (pc # "call" /\ fn = "shamsi_to_gregorian")
       => /\ ret.err = ""
          /\ ret.val[2] \in 1..12
          /\ 1 <= ret.val[3]
          /\ ret.val[3] <= DaysInCurrentGMonth(ret.val[1], ret.val[2])

\* a Gregorian date on the day count 80 of a year whose new-year offset is
\* 80: the Shamsi day count is 0 before the wrap
ConversionsTotalAndValidWitness ==
    /\ pc = "return" /\ fn = "gregorian_to_shamsi"
    /\ args[2] = 3 /\ args[3] = 21 /\ ~IsGregorianLeap(args[1])
    /\ GDayOfYearNewYear(args[1] - 621) = 80
    /\ ret.err = "" /\ ret.val[2] = 12

\* C10: shamsi_to_gregorian of the Shamsi day after (y, m, d) is the
\* Gregorian day after shamsi_to_gregorian(y, m, d), for y in 1300..1450.
DayByDayContinuity ==
    (pc = "return" /\ fn = "shamsi_to_gregorian"
        /\ args[1] \in ClaimYearLo..ClaimYearHi)
    => LET n == NextShamsiDay(args)
           g == shamsi_to_gregorian(n[1], n[2], n[3])
       IN ret.err = "" /\ g.err = "" /\ g.val = NextGregorianDay(ret.val)

(***************************************************************************)
(* Properties of the oracle and the metadata (checked under SpecMeta).     *)
(***************************************************************************)

\* C5: get_shamsi_month_name returns one of the twelve names for a month in
\* 1..12 and fails for every other integer, 0 and negative values included.
MonthNameFailsOutsideRange ==
    (pc = "return" /\ fn = "get_shamsi_month_name")
    => IF args[1] \in 1..12
       THEN ret.err = "" /\ ret.val \in MonthNames
       ELSE ret.err # ""

\* C7: is_shamsi_leap_year(y) = is_shamsi_leap_year(y + 33), exactly 8 of
\* any 33 consecutive years are leap, and y is leap iff the non-negative
\* remainder of (y + 2346) by 33 is one of 1, 5, 9, 13, 17, 21, 26, 30.
LeapYearPeriodicity ==
    (pc = "return" /\ fn = "is_shamsi_leap_year")
    => LET y == args[1]
       IN /\ ret.val = is_shamsi_leap_year(y + 33)
          /\ Cardinality({k \in y..(y + 32) : is_shamsi_leap_year(k)}) = 8
          /\ ret.val <=> (NonNegRem33(y + 2346) \in LeapResidues)

LeapYearPeriodicityWitness ==
    /\ pc = "return" /\ fn = "is_shamsi_leap_year"
    /\ args[1] + 2346 < 0 /\ ret.val = TRUE

(***************************************************************************)
(* Properties of the renderer (checked under SpecRender).                  *)
(***************************************************************************)
\* the number of tokens printed before the grid
HeadLen == Len(CalendarHead("", 0))

\* the grid: what is printed after the header row and before the final
\* spacing line
GridOf(out) == SubSeq(out, HeadLen + 1, Len(out) - 1)

\* C8: the grid is leading_blanks = (weekday of day 1 + 2) mod 7 blank
\* cells, then the days 1..get_days_in_shamsi_month in order, a line break
\* after exactly the days with (leading_blanks + day) mod 7 = 0, no row
\* longer than 7 cells, and exactly one line break after the last day.
GridShape ==
    (pc = "return" /\ fn = "print_shamsi_calendar" /\ ret.err = "")
    => LET year == args[1]
           month == args[2]
           g == shamsi_to_gregorian(year, month, 1).val
           leading_blanks == (date_weekday(g) + 2) % 7
           n == get_days_in_shamsi_month(year, month).val
           grid == GridOf(ret.val)
           days == SelectSeq(grid, LAMBDA t : t.kind = "day")
       IN /\ SubSeq(ret.val, 1, HeadLen)
                = CalendarHead(get_shamsi_month_name(month).val, year)
          /\ ret.val[Len(ret.val)] = NL
          /\ Len(grid) > leading_blanks
          /\ \A i \in 1..Len(grid) : (grid[i].kind = "blank") <=> (i <= leading_blanks)
          /\ Len(days) = n
          /\ \A d \in 1..n : days[d].num = d
          /\ \A i \in 1..(Len(grid) - 1) :
                grid[i].kind = "day" =>
                    ((grid[i + 1] = NL) <=>
                        ((leading_blanks + grid[i].num) % 7 = 0 \/ grid[i].num = n))
          /\ \A i \in 1..(Len(grid) - 1) : grid[i] = NL => grid[i + 1].kind = "day"
          /\ \A i \in 1..(Len(grid) - 7) : \E j \in i..(i + 7) : grid[j] = NL
          /\ grid[Len(grid)] = NL
          /\ grid[Len(grid) - 1].kind = "day"
          /\ grid[Len(grid) - 1].num = n

\* a 31-day month whose last day ends the fifth full row
GridShapeWitness ==
    /\ pc = "return" /\ fn = "print_shamsi_calendar" /\ ret.err = ""
    /\ args[2] \in 1..12
    /\ Len(SelectSeq(ret.val, LAMBDA t : t.kind = "blank")) = 4
    /\ Len(SelectSeq(ret.val, LAMBDA t : t.kind = "day")) = 31
    /\ Len(SelectSeq(ret.val, LAMBDA t : t = NL)) = 9

(***************************************************************************)
(* Properties of the command line (checked under SpecCli).                 *)
(***************************************************************************)
\* a finished run whose arguments argparse accepted
RunDone == pc = "return" /\ fn = "__main__" /\ ~ArgparseRejects(args.argv)

\* a finished run of the --shamsi conversion
ShamsiRequestDone ==
    RunDone /\ ~Truthy(args.argv.gregorian) /\ args.argv.shamsi.kind = "date"

\* C4: a --shamsi request for (y, 12, 30) ends in an invalid-day error and
\* yields no Gregorian date when y is not a leap year, and is accepted and
\* converted when y is a leap year.
Day30OfMonth12OnlyInLeapYear ==
    (ShamsiRequestDone /\ args.argv.shamsi.val[2] = 12 /\ args.argv.shamsi.val[3] = 30)
    => LET y == args.argv.shamsi.val[1]
       IN IF is_shamsi_leap_year(y)
          THEN /\ ret.val.status = "converted"
               /\ ret.val.date = shamsi_to_gregorian(y, 12, 30).val
          ELSE /\ ret.val.status = "error"
               /\ ret.val.date = <<>>

\* input the run must reject: a malformed or out-of-range option date, or
\* a positional month outside 1..12
InvalidInput(argv) ==
    \/ /\ Truthy(argv.gregorian)
       /\ \/ argv.gregorian.kind = "malformed"
          \/ argv.gregorian.val \notin
                ValidGregorianDates(argv.gregorian.val[1], argv.gregorian.val[1])
    \/ /\ ~Truthy(argv.gregorian) /\ Truthy(argv.shamsi)
       /\ \/ argv.shamsi.kind = "malformed"
          \/ argv.shamsi.val \notin
                ValidShamsiDates(argv.shamsi.val[1], argv.shamsi.val[1])
    \/ /\ ~Truthy(argv.gregorian) /\ ~Truthy(argv.shamsi)
       /\ argv.month.kind = "int" /\ argv.year.kind = "int"
       /\ argv.month.val \notin 1..12

\* C6: a run on invalid input exits with code 1, and a run exits with code
\* 0 only when the conversion or the calendar display succeeded.
ExitCodes ==
    RunDone
    => /\ InvalidInput(args.argv) => ret.val.exit = 1
       /\ ret.val.exit = 0 => ret.val.status \in {"converted", "calendar"}

====
